---- MODULE Spec2Model ----
(***************************************************************************)
(* A model of src/sync.js: the one-way sync of billable time entries of a  *)
(* time tracker into work items of an issue tracker.                       *)
(*                                                                         *)
(* Text is modelled as a sequence of one-character strings, so that the    *)
(* regular expressions of the source are computed character by character.  *)
(***************************************************************************)
EXTENDS Integers, Sequences, FiniteSets, TLC

(***************************************************************************)
(* Characters and strings                                                  *)
(***************************************************************************)
Lower == {"a", "b", "c", "d", "e", "f", "g", "h", "i", "j", "k", "l", "m",
          "n", "o", "p", "q", "r", "s", "t", "u", "v", "w", "x", "y", "z"}
Upper == {"A", "B", "C", "D", "E", "F", "G", "H", "I", "J", "K", "L", "M",
          "N", "O", "P", "Q", "R", "S", "T", "U", "V", "W", "X", "Y", "Z"}
Digit == {"0", "1", "2", "3", "4", "5", "6", "7", "8", "9"}
Space == {" "}

\* null / undefined of a string-valued field: no string of characters equals it
Null == <<"null">>

Min(S) == CHOOSE x \in S : \A y \in S : x <= y
Max(S) == CHOOSE x \in S : \A y \in S : x >= y

Rep(c, n) == [k \in 1..n |-> c]

\* JavaScript truthiness of a string-valued field: null and "" are falsy
Truthy(s) == s # Null /\ s # <<>>

\* String.prototype.trim
Trim(s) ==
    LET keep == {k \in 1..Len(s) : s[k] \notin Space}
    IN  IF keep = {} THEN <<>> ELSE SubSeq(s, Min(keep), Max(keep))

\* String.prototype.toLowerCase, letter by letter
LowerOf(c) ==
    CASE c = "A" -> "a" [] c = "B" -> "b" [] c = "C" -> "c" [] c = "D" -> "d"
      [] c = "E" -> "e" [] c = "F" -> "f" [] c = "G" -> "g" [] c = "H" -> "h"
      [] c = "I" -> "i" [] c = "J" -> "j" [] c = "K" -> "k" [] c = "L" -> "l"
      [] c = "M" -> "m" [] c = "N" -> "n" [] c = "O" -> "o" [] c = "P" -> "p"
      [] c = "Q" -> "q" [] c = "R" -> "r" [] c = "S" -> "s" [] c = "T" -> "t"
      [] c = "U" -> "u" [] c = "V" -> "v" [] c = "W" -> "w" [] c = "X" -> "x"
      [] c = "Y" -> "y" [] c = "Z" -> "z" [] OTHER -> c

toLowerCase(s) == [k \in 1..Len(s) |-> LowerOf(s[k])]

(***************************************************************************)
(* The two patterns of the source                                          *)
(***************************************************************************)
\* the {24} of /\[([a-z\d]{24})]/
MarkerLen == 24

\* /\[([a-z\d]{24})]/ matches t at position k
MarkerAt(t, k) ==
    /\ k + MarkerLen + 1 <= Len(t)
    /\ t[k] = "["
    /\ \A j \in 1..MarkerLen : t[k + j] \in Lower \cup Digit
    /\ t[k + MarkerLen + 1] = "]"

\* extractInternalId: the capture of the leftmost match, or null
extractInternalId(text) ==
    LET t == Trim(text)
        hits == {k \in 1..Len(t) : MarkerAt(t, k)}
    IN  IF hits = {} THEN Null
        ELSE SubSeq(t, Min(hits) + 1, Min(hits) + MarkerLen)

\* assert.match(description, /\[[a-z\d]{24}]/) passes
assertMatch(description) ==
    \E k \in 1..Len(description) : MarkerAt(description, k)

\* /^([A-Z0-9]+-\d+)/ on the trimmed text: the longest run of [A-Z0-9] must be
\* followed by "-" and at least one digit (the run cannot backtrack onto a "-")
extractIssueId(text) ==
    LET t == Trim(text)
        Run(from, S) ==
            LET stop == {k \in from..Len(t) : t[k] \notin S}
            IN  IF stop = {} THEN Len(t) - from + 1 ELSE Min(stop) - from
        n == Run(1, Upper \cup Digit)
        m == IF n >= 1 /\ n + 1 <= Len(t) /\ t[n + 1] = "-"
             THEN Run(n + 2, Digit) ELSE 0
    IN  IF m >= 1 THEN SubSeq(t, 1, n + 1 + m) ELSE Null

\* the template literal `${entry.description} [${entry.id}]`; a null
\* description is interpolated as the four letters of "null"
TemplateDescription(description, id) ==
    (IF description = Null THEN <<"n", "u", "l", "l">> ELSE description)
        \o <<" ", "[">> \o id \o <<"]">>

(***************************************************************************)
(* Bounds of the model                                                     *)
(***************************************************************************)
\* entries in one response of the time source
MaxEntries == 2
\* work items an issue holds before the first run
MaxInitItems == 1
\* runs of the program, one after the other
MaxRuns == 2
\* page size of getIssueWorkItems, scaled down from the source's 5000
limit == 2
\* requests a single fetch is followed for against an arbitrary issue source
MaxRequests == 3
\* pieces a description is put together from
MaxPieces == 2
\* days between the epoch and the day of `now`
MaxDays == 2
\* largest value given to --last-n-days
MaxLastN == 3

(***************************************************************************)
(* The data the runs work on                                               *)
(***************************************************************************)
\* absent start (no Date) and absent duration
NoDate == -1
NoDuration == -1
\* the process of the run has not ended
NoExit == -1

IdA == Rep("a", MarkerLen)
IdB == Rep("b", MarkerLen)
IdC == Rep("c", MarkerLen)
IdD == Rep("d", MarkerLen)
IdE == Rep("e", MarkerLen)
IdF == Rep("f", MarkerLen)
IdG == Rep("g", MarkerLen)
IdH == Rep("h", MarkerLen)
IdI == Rep("i", MarkerLen)
\* ids that do not have the 24-character shape
IdShort == <<"x", "1">>
IdUpper == Rep("X", MarkerLen)

Bracket(id) == <<"[">> \o id \o <<"]">>

DescPlain == <<"f", "i", "x">>
\* a description that itself holds a bracketed 24-character token
DescMarked == <<"s", "e", "e", " ">> \o Bracket(IdB)

AB1 == <<"A", "B", "-", "1">>
CD2 == <<"C", "D", "-", "2">>
IssueIds == {AB1, CD2}

TaskAB1 == [present |-> TRUE, name |-> AB1 \o <<" ", "a", "p", "i">>]
TaskCD2 == [present |-> TRUE, name |-> <<" ">> \o CD2]
TaskNone == [present |-> FALSE, name |-> Null]
\* a task whose label holds no issue key
TaskMisc == [present |-> TRUE, name |-> <<"a", "b", "-", "1">>]

TagDev == [name |-> <<" ", "D", "e", "v", " ">>]
TagOther == [name |-> <<"o", "p", "s">>]
TagNameless == [name |-> Null]

Interval(start, duration) ==
    [present |-> TRUE, start |-> start, duration |-> duration]
NoInterval == [present |-> FALSE, start |-> NoDate, duration |-> NoDuration]

Raw(id, description, billable, tags, task, timeInterval) ==
    [id |-> id, description |-> description, billable |-> billable,
     tags |-> tags, task |-> task, timeInterval |-> timeInterval]

\* a record that has no billable field at all
RawUnflagged(id, description, tags, task, timeInterval) ==
    [id |-> id, description |-> description, tags |-> tags, task |-> task,
     timeInterval |-> timeInterval]

\* the records of the time tracker in the order of their start; durations
\* are in seconds
TimeSource ==
    << Raw(IdD, DescPlain, TRUE, <<TagOther>>, TaskCD2, Interval(100, 60)),
       Raw(IdA, DescPlain, TRUE, <<TagDev>>, TaskAB1, Interval(200, 5400)),
       Raw(IdC, DescMarked, TRUE, <<>>, TaskAB1, Interval(300, 45)),
       Raw(IdShort, DescPlain, TRUE, <<>>, TaskCD2, Interval(400, 60)),
       Raw(IdUpper, DescMarked, TRUE, <<>>, TaskAB1, Interval(500, 60)),
       Raw(IdG, DescPlain, FALSE, <<>>, TaskAB1, Interval(600, 60)),
       RawUnflagged(IdI, DescPlain, <<>>, TaskCD2, Interval(700, 60)),
       Raw(IdF, DescPlain, TRUE, <<TagDev>>, TaskMisc,
           Interval(800, NoDuration)),
       Raw(IdE, Null, TRUE, <<>>, TaskNone, Interval(NoDate, NoDuration)),
       Raw(IdH, DescPlain, TRUE, <<TagNameless>>, TaskCD2, Interval(900, 60)),
       Raw(IdB, DescPlain, TRUE, <<>>, TaskCD2, NoInterval) >>

\* the elements of s at the positions S, in the order of s
Pick(s, S) ==
    [k \in 1..Cardinality(S) |->
        s[CHOOSE p \in S : Cardinality({q \in S : q < p}) = k - 1]]

\* responses of the time source: the records of a date range, that is the
\* records from one position to another, at most MaxEntries of them
Responses ==
    { SubSeq(TimeSource, w[1], w[2]) :
        w \in { v \in (1..Len(TimeSource)) \X (0..Len(TimeSource)) :
                  v[2] - v[1] + 1 \in 0..MaxEntries } }

\* a work item of the issue tracker; by is 0 for an item that was there before
\* the first run and otherwise the run that created it, for the entry `entry`
Item(text, date, duration, type, by, entry) ==
    [text |-> text, date |-> date, duration |-> duration, type |-> type,
     by |-> by, entry |-> entry]

Foreign(text) == Item(text, 0, 0, Null, 0, Null)

\* texts of work items that exist before the first run
InitTexts ==
    << <<"n", "o", "t", "e">>,
       <<"x", " ">> \o Bracket(IdA),
       Bracket(IdB) \o <<" ">> \o Bracket(IdA) >>

SeqsUpTo(S, n) == UNION { [1..k -> S] : k \in 0..n }

\* the work items of an issue before the first run, in one order
InitItems ==
    { [k \in 1..Len(c) |-> Foreign(InitTexts[c[k]])] :
        c \in { d \in SeqsUpTo(1..Len(InitTexts), MaxInitItems) :
                  \A j \in 1..Len(d) - 1 : d[j] <= d[j + 1] } }

InitTrackers ==
    { [iss \in IssueIds |-> IF iss = AB1 THEN ab ELSE cd] :
        ab \in InitItems,
        cd \in {<<>>, <<Foreign(InitTexts[2])>>} }

\* the work item types configured in the issue tracker
WorkItemTypes ==
    << [id |-> <<"t", "1">>, name |-> <<"D", "E", "V">>],
       [id |-> <<"t", "2">>, name |-> <<"R", "e", "v", "i", "e", "w">>] >>

(***************************************************************************)
(* State                                                                   *)
(***************************************************************************)
VARIABLES
    data,               \* the response of the time source for the window
    workItems,          \* issue tracker: issue id -> sequence of work items
    run,                \* number of the current run, 0 before the first
    pc,                 \* where the current run of sync() stands
    options,            \* program.opts() of the current run
    entries,            \* sync: entries
    workTypes,          \* sync: workTypes
    timeEntries,        \* sync: timeEntries
    uniqueIssueIds,     \* sync: uniqueIssueIds
    fetches,            \* issue id -> the getIssueWorkItems call in flight
    workItemsByIssueId, \* sync: workItemsByIssueId
    idx,                \* position of the for loop in timeEntries
    log,                \* console lines of the per-entry decisions of the run
    posts,              \* the POSTs the current run sent to the issue tracker
    before,             \* the issue tracker as it was when the run started
    markersBefore,      \* issue id -> the markers its work items held then
    hist,               \* the run before the current one, if it ended by itself
    error,              \* what sync() was rejected with, "none" if nothing
    exitCode,           \* the exit code of the process of the run, once it ended
    fetch,              \* one getIssueWorkItems call against any issue source
    pages,              \* the pages that issue source answered with
    nreq,               \* the number of requests of that call
    call                \* a call of a pure helper: its arguments and result

vars == <<data, workItems, run, pc, options, entries, workTypes, timeEntries,
          uniqueIssueIds, fetches, workItemsByIssueId, idx, log, posts,
          before, markersBefore, hist, error, exitCode, fetch, pages, nreq,
          call>>

\* the variables of the runs of sync()
syncVars == <<data, workItems, run, pc, options, entries, workTypes,
              timeEntries, uniqueIssueIds, fetches, workItemsByIssueId, idx,
              log, posts, before, markersBefore, hist, error, exitCode>>
\* the variables of the single calls, which the runs leave alone
other == <<fetch, pages, nreq, call>>

\* the variables of one run of sync()
local == <<options, entries, workTypes, timeEntries, uniqueIssueIds, fetches,
           workItemsByIssueId, idx, log>>

Empty == [x \in {} |-> 0]

Range(s) == {s[k] : k \in 1..Len(s)}

Running == {"getBillableEntries", "getAllWorkItemTypes", "createTimeEntries",
            "fetching", "loop"}
Ended == {"done", "failed", "aborted"}

(***************************************************************************)
(* Helpers of the source                                                   *)
(***************************************************************************)
\* entry.billable is truthy: a record without the field yields undefined
Billable(r) == "billable" \in DOMAIN r /\ r.billable

\* getBillableEntries without its filter
FilterNothing(d) == d

\* getBillableEntries: (data || []).filter((entry) => entry.billable)
RECURSIVE FilterBillable(_)
FilterBillable(d) ==
    IF d = <<>> THEN <<>>
    ELSE (IF Billable(Head(d)) THEN <<Head(d)>> ELSE <<>>)
            \o FilterBillable(Tail(d))

\* getAllWorkItemTypes: the reduce into { [name.toLowerCase().trim()]: id };
\* a later type of the same key overwrites an earlier one
getAllWorkItemTypes(types) ==
    LET key(k) == Trim(toLowerCase(types[k].name))
    IN  [n \in {key(k) : k \in 1..Len(types)} |->
            types[Max({k \in 1..Len(types) : key(k) = n})].id]

\* createTimeEntry throws a TypeError: timeInterval is undefined, or the first
\* tag has no name (the optional chain stops before .toLowerCase())
createTimeEntryThrows(b) ==
    \/ ~b.timeInterval.present
    \/ (Len(b.tags) >= 1 /\ b.tags[1].name = Null)

createTimeEntry(b) ==
    LET type == IF Len(b.tags) >= 1 THEN Trim(toLowerCase(b.tags[1].name))
                ELSE Null
    IN  [id |-> b.id,
         description |-> b.description,
         type |-> IF Truthy(type) THEN type ELSE Null,
         issueId |-> IF b.task.present /\ Truthy(b.task.name)
                     THEN extractIssueId(b.task.name) ELSE Null,
         startDate |-> b.timeInterval.start,
         durationMinutes |-> b.timeInterval.duration]

\* getUniqueBy(arr, keyFn): the truthy keys, each once, in order of first use
RECURSIVE Unique(_)
Unique(s) ==
    IF s = <<>> THEN <<>>
    ELSE LET r == Unique(SubSeq(s, 1, Len(s) - 1))
             x == s[Len(s)]
         IN  IF x \in Range(r) THEN r ELSE Append(r, x)

getUniqueBy(arr) ==
    Unique(SelectSeq([k \in 1..Len(arr) |-> arr[k].issueId], Truthy))

\* the turn of the loop without `skip += limit`: every request asks for the
\* first page again
getIssueWorkItemsStepSameSkip(f, page) ==
    [status |-> IF Len(page) < limit THEN "done" ELSE "running",
     skip |-> f.skip,
     items |-> f.items \o page,
     requests |-> Append(f.requests, f.skip)]

\* one turn of the while loop of getIssueWorkItems on the response page
\* `page`: push the items, stop on a short page, else advance skip
getIssueWorkItemsStep(f, page) ==
    [status |-> IF Len(page) < limit THEN "done" ELSE "running",
     skip |-> IF Len(page) < limit THEN f.skip ELSE f.skip + limit,
     items |-> f.items \o page,
     requests |-> Append(f.requests, f.skip)]

\* the issue tracker's answer to $skip, $top
PageOf(items, skip, top) ==
    SubSeq(items, skip + 1, IF skip + top < Len(items) THEN skip + top
                            ELSE Len(items))

\* issueWorkItems.map((item) => extractInternalId(item.text || "")).filter(Boolean)
MarkersOf(items) ==
    {extractInternalId(IF Truthy(items[k].text) THEN items[k].text ELSE <<>>) :
        k \in 1..Len(items)} \ {Null}

\* workTypes is a plain object: reduce starts from {} (line 98), so a key it
\* does not own is looked up in Object.prototype.  Of the members of
\* Object.prototype these are the ones a lower-cased, trimmed tag can name.
ObjectPrototypeKeys ==
    { <<"c", "o", "n", "s", "t", "r", "u", "c", "t", "o", "r">>,
      <<"_", "_", "p", "r", "o", "t", "o", "_", "_">> }

\* the member of Object.prototype found there: a function or an object, which
\* is truthy and is no work item type id
Inherited == <<"Object.prototype">>

\* workTypes[entry.type]; Null stands for undefined
Lookup(wt, key) ==
    IF key \in DOMAIN wt THEN wt[key]
    ELSE IF key \in ObjectPrototypeKeys THEN Inherited
    ELSE Null

\* the data object of one iteration of the for loop
PayloadOf(e, wt) ==
    [description |-> TemplateDescription(e.description, e.id),
     date |-> e.startDate,
     durationMinutes |-> e.durationMinutes,
     workTypeId |-> IF Truthy(e.type) /\ Truthy(Lookup(wt, e.type))
                    THEN Lookup(wt, e.type) ELSE Null]

(***************************************************************************)
(* The runs of sync()                                                      *)
(***************************************************************************)
\* what is kept of a run that completed or threw on its input; a run that
\* the caller ended or that met a network failure is not kept
Summary ==
    [run |-> run, dryRun |-> options.dryRun, before |-> before, log |-> log,
     outcome |-> pc, error |-> error]

\* a getIssueWorkItems call at its first request
NewFetch == [status |-> "running", skip |-> 0, items |-> <<>>,
             requests |-> <<>>]

NoCall == [fn |-> "none"]

\* no getIssueWorkItems call against an arbitrary source is under way
PageIdle ==
    /\ fetch = [NewFetch EXCEPT !.status = "none"]
    /\ pages = <<>>
    /\ nreq = 0

\* no single call is under way
OtherIdle == PageIdle /\ call = NoCall

\* no run of sync() was started
SyncIdle ==
    /\ run = 0
    /\ pc = "idle"
    /\ options = [dryRun |-> FALSE]
    /\ entries = <<>>
    /\ workTypes = Empty
    /\ timeEntries = <<>>
    /\ uniqueIssueIds = <<>>
    /\ fetches = Empty
    /\ workItemsByIssueId = Empty
    /\ idx = 0
    /\ log = <<>>
    /\ posts = <<>>
    /\ before = workItems
    /\ markersBefore = [iss \in IssueIds |-> MarkersOf(workItems[iss])]
    /\ hist = <<>>
    /\ error = "none"
    /\ exitCode = NoExit

Init ==
    /\ data \in Responses
    /\ workItems \in InitTrackers
    /\ SyncIdle
    /\ OtherIdle

\* the program is started: program.opts()
StartRun ==
    /\ pc \in {"idle"} \cup Ended
    /\ run < MaxRuns
    /\ run' = run + 1
    /\ pc' = "getBillableEntries"
    /\ \E dry \in BOOLEAN : options' = [dryRun |-> dry]
    /\ entries' = <<>>
    /\ workTypes' = Empty
    /\ timeEntries' = <<>>
    /\ uniqueIssueIds' = <<>>
    /\ fetches' = Empty
    /\ workItemsByIssueId' = Empty
    /\ idx' = 0
    /\ log' = <<>>
    /\ before' = workItems
    /\ markersBefore' = [iss \in IssueIds |-> MarkersOf(workItems[iss])]
    /\ hist' = IF pc \in {"done", "failed"} /\ error # "network"
               THEN <<Summary>> ELSE <<>>
    /\ error' = "none"
    /\ posts' = <<>>
    /\ exitCode' = NoExit
    /\ UNCHANGED <<data, workItems, other>>

\* sync().catch((err) => console.error(...)): a rejection of sync() is handled
\* at line 251 and process.exitCode is never assigned, so the process ends
\* with exit code 0 as soon as sync() has settled and no request is pending
exitCodeOnceSettled(f) ==
    IF \E iss \in DOMAIN f : f[iss].status = "running" THEN NoExit ELSE 0

\* const entries = await getBillableEntries(dateRange)
GetBillableEntries ==
    /\ pc = "getBillableEntries"
    /\ entries' = FilterBillable(data)
    /\ pc' = "getAllWorkItemTypes"
    /\ UNCHANGED <<data, workItems, run, options, workTypes, timeEntries,
                   uniqueIssueIds, fetches, workItemsByIssueId, idx, log,
                   posts, before, markersBefore, hist, error, other,
                   exitCode>>

\* const workTypes = await getAllWorkItemTypes()
GetAllWorkItemTypes ==
    /\ pc = "getAllWorkItemTypes"
    /\ workTypes' = getAllWorkItemTypes(WorkItemTypes)
    /\ pc' = "createTimeEntries"
    /\ UNCHANGED <<data, workItems, run, options, entries, timeEntries,
                   uniqueIssueIds, fetches, workItemsByIssueId, idx, log,
                   posts, before, markersBefore, hist, error, other,
                   exitCode>>

\* either GET is rejected: the await throws out of sync()
LookupFails ==
    /\ pc \in {"getBillableEntries", "getAllWorkItemTypes"}
    /\ pc' = "failed"
    /\ error' = "network"
    /\ exitCode' = exitCodeOnceSettled(fetches)
    /\ UNCHANGED <<data, workItems, run, local, posts, before, markersBefore,
                   hist, other>>

\* entries.map(createTimeEntry) throws
CreateTimeEntriesThrows ==
    /\ pc = "createTimeEntries"
    /\ \E k \in 1..Len(entries) : createTimeEntryThrows(entries[k])
    /\ pc' = "failed"
    /\ error' = "TypeError"
    /\ exitCode' = exitCodeOnceSettled(fetches)
    /\ UNCHANGED <<data, workItems, run, local, posts, before, markersBefore,
                   hist, other>>

\* timeEntries, uniqueIssueIds, and the first request of every
\* getIssueWorkItems call that Promise.all gathers
CreateTimeEntries ==
    /\ pc = "createTimeEntries"
    /\ \A k \in 1..Len(entries) : ~createTimeEntryThrows(entries[k])
    /\ timeEntries' = [k \in 1..Len(entries) |-> createTimeEntry(entries[k])]
    /\ uniqueIssueIds' = getUniqueBy(timeEntries')
    /\ fetches' = [iss \in Range(uniqueIssueIds') |-> NewFetch]
    /\ pc' = "fetching"
    /\ UNCHANGED <<data, workItems, run, options, entries, workTypes,
                   workItemsByIssueId, idx, log, posts, before, markersBefore,
                   hist, error, other, exitCode>>

\* getIssueWorkItems calls that push into one shared array: the page that
\* arrives for one issue lands in the items of every call that is under way
FetchPageShared(iss) ==
    /\ pc \in {"fetching", "failed"}
    /\ iss \in DOMAIN fetches
    /\ fetches[iss].status = "running"
    /\ LET page == PageOf(workItems[iss], fetches[iss].skip, limit)
       IN  fetches' =
               [i \in DOMAIN fetches |->
                   IF i = iss THEN getIssueWorkItemsStep(fetches[i], page)
                   ELSE IF fetches[i].status = "running"
                   THEN [fetches[i] EXCEPT !.items = @ \o page]
                   ELSE fetches[i]]
    /\ exitCode' = IF pc = "failed" THEN exitCodeOnceSettled(fetches')
                   ELSE exitCode
    /\ UNCHANGED <<data, workItems, run, pc, options, entries, workTypes,
                   timeEntries, uniqueIssueIds, workItemsByIssueId, idx, log,
                   posts, before, markersBefore, hist, error, other>>

\* getIssueWorkItems without its loop: the first page is all that is asked for
FetchFirstPageOnly(iss) ==
    /\ pc \in {"fetching", "failed"}
    /\ iss \in DOMAIN fetches
    /\ fetches[iss].status = "running"
    /\ fetches' = [fetches EXCEPT ![iss] =
                     [getIssueWorkItemsStep(@,
                          PageOf(workItems[iss], @.skip, limit))
                      EXCEPT !.status = "done"]]
    /\ exitCode' = IF pc = "failed" THEN exitCodeOnceSettled(fetches')
                   ELSE exitCode
    /\ UNCHANGED <<data, workItems, run, pc, options, entries, workTypes,
                   timeEntries, uniqueIssueIds, workItemsByIssueId, idx, log,
                   posts, before, markersBefore, hist, error, other>>

\* a page of one issue arrives: one turn of the loop of getIssueWorkItems.
\* After another fetch failed the remaining ones still run to their end.
FetchPage(iss) ==
    /\ pc \in {"fetching", "failed"}
    /\ iss \in DOMAIN fetches
    /\ fetches[iss].status = "running"
    /\ fetches' = [fetches EXCEPT ![iss] =
                     getIssueWorkItemsStep(@,
                         PageOf(workItems[iss], @.skip, limit))]
    /\ exitCode' = IF pc = "failed" THEN exitCodeOnceSettled(fetches')
                   ELSE exitCode
    /\ UNCHANGED <<data, workItems, run, pc, options, entries, workTypes,
                   timeEntries, uniqueIssueIds, workItemsByIssueId, idx, log,
                   posts, before, markersBefore, hist, error, other>>

\* a page request of one issue is rejected: Promise.all rejects
FetchPageFails(iss) ==
    /\ pc \in {"fetching", "failed"}
    /\ iss \in DOMAIN fetches
    /\ fetches[iss].status = "running"
    /\ fetches' = [fetches EXCEPT ![iss].status = "failed",
                                  ![iss].requests = Append(@, fetches[iss].skip)]
    /\ pc' = "failed"
    /\ error' = "network"
    /\ exitCode' = exitCodeOnceSettled(fetches')
    /\ UNCHANGED <<data, workItems, run, options, entries, workTypes,
                   timeEntries, uniqueIssueIds, workItemsByIssueId, idx, log,
                   posts, before, markersBefore, hist, other>>

\* Promise.allSettled in the place of Promise.all: the loop is entered once
\* every fetch has settled, the rejected ones with what they had gathered
JoinSettled ==
    /\ pc \in {"fetching", "failed"}
    /\ DOMAIN fetches # {}
    /\ \A iss \in DOMAIN fetches : fetches[iss].status \in {"done", "failed"}
    /\ workItemsByIssueId' =
           [iss \in DOMAIN fetches |-> MarkersOf(fetches[iss].items)]
    /\ idx' = 1
    /\ pc' = "loop"
    /\ exitCode' = NoExit
    /\ UNCHANGED <<data, workItems, run, options, entries, workTypes,
                   timeEntries, uniqueIssueIds, fetches, log, posts, before,
                   markersBefore, hist, error, other>>

\* Promise.all resolves: new Map of [issueId, new Set(workItemInternalIds)]
Join ==
    /\ pc = "fetching"
    /\ \A iss \in DOMAIN fetches : fetches[iss].status = "done"
    /\ workItemsByIssueId' =
           [iss \in DOMAIN fetches |-> MarkersOf(fetches[iss].items)]
    /\ idx' = 1
    /\ pc' = "loop"
    /\ UNCHANGED <<data, workItems, run, options, entries, workTypes,
                   timeEntries, uniqueIssueIds, fetches, log, posts, before,
                   markersBefore, hist, error, other, exitCode>>

\* the entry the for loop stands at
Entry == timeEntries[idx]
InLoop == pc = "loop" /\ idx <= Len(timeEntries)

\* a lookup of the id in the marker sets of all the issues of the run
ExistsAnywhere(e) ==
    e.id \in UNION {workItemsByIssueId[iss] : iss \in DOMAIN workItemsByIssueId}

\* const exists = existingItems.has(entry.id)
Exists(e) == e.id \in workItemsByIssueId[e.issueId]

Line(kind, e) == [kind |-> kind, id |-> e.id, issueId |-> e.issueId]

\* the POST of postIssueWorkItem as the issue tracker stores it
Created(e, payload) ==
    Item(payload.description, payload.date, payload.durationMinutes,
         payload.workTypeId, run, e.id)

Sent(e, payload, ok) ==
    [run |-> run, dryRun |-> options.dryRun, idx |-> idx, id |-> e.id,
     issueId |-> e.issueId, payload |-> payload, ok |-> ok]

\* entry.startDate.toDateString() on a null startDate: TypeError
LoopThrows ==
    /\ InLoop
    /\ Entry.startDate = NoDate
    /\ pc' = "failed"
    /\ error' = "TypeError"
    /\ exitCode' = exitCodeOnceSettled(fetches)
    /\ UNCHANGED <<data, workItems, run, local, posts, before, markersBefore,
                   hist, other>>

\* if (!entry.issueId) { console.warn(...); continue; }
NoIssue ==
    /\ InLoop
    /\ Entry.startDate # NoDate
    /\ ~Truthy(Entry.issueId)
    /\ log' = Append(log, Line("NoIssue", Entry))
    /\ idx' = idx + 1
    /\ UNCHANGED <<data, workItems, run, pc, options, entries, workTypes,
                   timeEntries, uniqueIssueIds, fetches, workItemsByIssueId,
                   posts, before, markersBefore, hist, error, other,
                   exitCode>>

\* if (exists) { console.log(...); continue; }
Skipping ==
    /\ InLoop
    /\ Entry.startDate # NoDate
    /\ Truthy(Entry.issueId)
    /\ Exists(Entry)
    /\ log' = Append(log, Line("Skipping", Entry))
    /\ idx' = idx + 1
    /\ UNCHANGED <<data, workItems, run, pc, options, entries, workTypes,
                   timeEntries, uniqueIssueIds, fetches, workItemsByIssueId,
                   posts, before, markersBefore, hist, error, other,
                   exitCode>>

\* the entry is to be created
ToCreate ==
    /\ InLoop
    /\ Entry.startDate # NoDate
    /\ Truthy(Entry.issueId)
    /\ ~Exists(Entry)

\* dry run: postIssueWorkItem is not called, "Synced" is printed
SyncedDryRun ==
    /\ ToCreate
    /\ options.dryRun
    /\ log' = Append(log, Line("Synced", Entry))
    /\ idx' = idx + 1
    /\ UNCHANGED <<data, workItems, run, pc, options, entries, workTypes,
                   timeEntries, uniqueIssueIds, fetches, workItemsByIssueId,
                   posts, before, markersBefore, hist, error, other,
                   exitCode>>

\* postIssueWorkItem: assert.match throws an AssertionError, nothing is sent
PostAssertFails ==
    /\ ToCreate
    /\ ~options.dryRun
    /\ ~assertMatch(PayloadOf(Entry, workTypes).description)
    /\ pc' = "failed"
    /\ error' = "AssertionError"
    /\ exitCode' = exitCodeOnceSettled(fetches)
    /\ UNCHANGED <<data, workItems, run, local, posts, before, markersBefore,
                   hist, other>>

\* a loop that keeps its index up to date: the marker of the work item that
\* was just created is added to the set of its issue
PostRefreshesIndex ==
    /\ ToCreate
    /\ ~options.dryRun
    /\ LET payload == PayloadOf(Entry, workTypes)
       IN  /\ assertMatch(payload.description)
           /\ workItems' = [workItems EXCEPT ![Entry.issueId] =
                               Append(@, Created(Entry, payload))]
           /\ posts' = Append(posts, Sent(Entry, payload, TRUE))
           /\ workItemsByIssueId' =
                  [workItemsByIssueId EXCEPT ![Entry.issueId] =
                      @ \cup {extractInternalId(payload.description)}]
    /\ log' = Append(log, Line("Synced", Entry))
    /\ idx' = idx + 1
    /\ UNCHANGED <<data, run, pc, options, entries, workTypes, timeEntries,
                   uniqueIssueIds, fetches, before, markersBefore, hist,
                   error, other, exitCode>>

\* postIssueWorkItem: the POST is accepted, "Synced" is printed
Post ==
    /\ ToCreate
    /\ ~options.dryRun
    /\ LET payload == PayloadOf(Entry, workTypes)
       IN  /\ assertMatch(payload.description)
           /\ workItems' = [workItems EXCEPT ![Entry.issueId] =
                               Append(@, Created(Entry, payload))]
           /\ posts' = Append(posts, Sent(Entry, payload, TRUE))
    /\ log' = Append(log, Line("Synced", Entry))
    /\ idx' = idx + 1
    /\ UNCHANGED <<data, run, pc, options, entries, workTypes, timeEntries,
                   uniqueIssueIds, fetches, workItemsByIssueId, before,
                   markersBefore, hist, error, other, exitCode>>

\* a rejected POST that is caught inside the loop: the loop goes on with the
\* next entry
PostFailsGoesOn ==
    /\ ToCreate
    /\ ~options.dryRun
    /\ LET payload == PayloadOf(Entry, workTypes)
       IN  /\ assertMatch(payload.description)
           /\ posts' = Append(posts, Sent(Entry, payload, FALSE))
    /\ idx' = idx + 1
    /\ UNCHANGED <<data, workItems, run, pc, options, entries, workTypes,
                   timeEntries, uniqueIssueIds, fetches, workItemsByIssueId,
                   log, before, markersBefore, hist, error, other, exitCode>>

\* postIssueWorkItem: the POST is rejected, the await throws out of sync()
PostFails ==
    /\ ToCreate
    /\ ~options.dryRun
    /\ LET payload == PayloadOf(Entry, workTypes)
       IN  /\ assertMatch(payload.description)
           /\ posts' = Append(posts, Sent(Entry, payload, FALSE))
    /\ pc' = "failed"
    /\ error' = "network"
    /\ exitCode' = exitCodeOnceSettled(fetches)
    /\ UNCHANGED <<data, workItems, run, local, before, markersBefore, hist,
                   other>>

\* the for loop is over: sync() resolves
Return ==
    /\ pc = "loop"
    /\ idx > Len(timeEntries)
    /\ pc' = "done"
    /\ exitCode' = exitCodeOnceSettled(fetches)
    /\ UNCHANGED <<data, workItems, run, local, posts, before, markersBefore,
                   hist, error, other>>

\* the caller ends the process while the run is under way: what the run
\* held in memory is gone, what it printed and what it created stay
Abort ==
    /\ pc \in Running
    /\ pc' = "aborted"
    /\ entries' = <<>>
    /\ workTypes' = Empty
    /\ timeEntries' = <<>>
    /\ uniqueIssueIds' = <<>>
    /\ fetches' = Empty
    /\ workItemsByIssueId' = Empty
    /\ idx' = 0
    /\ UNCHANGED <<data, workItems, run, options, log, posts, before,
                   markersBefore, hist, error, other, exitCode>>

Next ==
    \/ StartRun
    \/ GetBillableEntries
    \/ GetAllWorkItemTypes
    \/ LookupFails
    \/ CreateTimeEntriesThrows
    \/ CreateTimeEntries
    \/ \E iss \in IssueIds : FetchPage(iss)
    \/ \E iss \in IssueIds : FetchPageFails(iss)
    \/ Join
    \/ LoopThrows
    \/ NoIssue
    \/ Skipping
    \/ SyncedDryRun
    \/ PostAssertFails
    \/ Post
    \/ PostFails
    \/ Return
    \/ Abort

Spec == Init /\ [][Next]_vars

(***************************************************************************)
(* Claims about the runs of sync()                                         *)
(***************************************************************************)
\* id has the shape of a marker: 24 characters of a-z, 0-9
MarkerShape(id) ==
    Len(id) = MarkerLen /\ \A k \in 1..Len(id) : id[k] \in Lower \cup Digit

\* [id] stands somewhere in text, as a bracketed 24-character token
HoldsMarker(text, id) ==
    /\ text # Null
    /\ \E k \in 1..Len(text) :
          MarkerAt(text, k) /\ SubSeq(text, k + 1, k + MarkerLen) = id

\* some work item of the sequence holds the marker [id]
MarkedIn(items, id) == \E k \in 1..Len(items) : HoldsMarker(items[k].text, id)

\* the runs that ended and are remembered, the current one included
EndedRuns == Range(hist) \cup (IF pc \in Ended THEN {Summary} ELSE {})

\* the POSTs of run r
PostsOf(r) == {k \in 1..Len(posts) : posts[k].run = r}

\* C1: after a live run that completed, the next run over the same records
\* (ids of the 24-character shape, the tracker untouched in between) sends no
\* POST.
C1_Idempotent ==
    (/\ hist # <<>>
     /\ hist[1].outcome = "done"
     /\ ~hist[1].dryRun
     /\ \A k \in 1..Len(data) : MarkerShape(data[k].id))
        => PostsOf(run) = {}

\* the work items under issue iss that the runs created for entry id
CreatedFor(iss, id) ==
    {k \in 1..Len(workItems[iss]) :
        workItems[iss][k].by >= 1 /\ workItems[iss][k].entry = id}

\* C2: the tracker never holds two work items created by the runs for the same
\* entry under the same issue, and after a live run that completed every entry
\* with an issue id is represented under its issue.
C2_ExactlyOnce ==
    /\ \A iss \in IssueIds : \A k \in 1..Len(data) :
          Cardinality(CreatedFor(iss, data[k].id)) <= 1
    /\ (pc = "done" /\ ~options.dryRun) =>
          \A k \in 1..Len(timeEntries) :
              Truthy(timeEntries[k].issueId) =>
                  \/ CreatedFor(timeEntries[k].issueId, timeEntries[k].id) # {}
                  \/ MarkedIn(workItems[timeEntries[k].issueId],
                              timeEntries[k].id)

\* C3: an entry whose marker stands anywhere in the text of a work item of its
\* issue is found to exist, is never reported as synced and gets no POST.
C3_MarkedIsSkipped ==
    /\ (InLoop /\ Truthy(Entry.issueId)
            /\ MarkedIn(before[Entry.issueId], Entry.id)) => Exists(Entry)
    /\ \A k \in 1..Len(log) :
          log[k].kind = "Synced" => ~MarkedIn(before[log[k].issueId], log[k].id)
    /\ \A k \in PostsOf(run) :
          ~MarkedIn(before[posts[k].issueId], posts[k].id)

\* C4: at an entry without issue id the loop reports NoIssue, sends nothing,
\* does not fail and goes on to the next entry (unless the caller ends the
\* process at that point).
C4_NoIssue ==
    [][(InLoop /\ ~Truthy(Entry.issueId) /\ pc' # "aborted") =>
          /\ pc' = "loop"
          /\ idx' = idx + 1
          /\ log' = Append(log, Line("NoIssue", Entry))
          /\ posts' = posts
          /\ workItems' = workItems]_vars

\* C6: a dry run sends no POST, and a dry run and a live run that start from
\* the same tracker and meet no network failure report the same decisions and
\* end the same way.
C6_DryRunSame ==
    /\ \A k \in 1..Len(posts) : ~posts[k].dryRun
    /\ \A a, b \in EndedRuns :
          (/\ a.dryRun /\ ~b.dryRun
           /\ a.before = b.before
           /\ a.outcome # "aborted" /\ b.outcome # "aborted"
           /\ a.error # "network" /\ b.error # "network")
              => (a.log = b.log /\ a.outcome = b.outcome)

\* C7: every POST that is sent carries a text from which the marker
\* extraction of the next run yields the id of the entry it was sent for.
C7_SentIsRecognised ==
    \A k \in 1..Len(posts) :
        extractInternalId(posts[k].payload.description) = posts[k].id

\* a lookup of the run failed: the GET of the time records or of the work
\* item types (the run never came to the loop), or a page request of an issue
LookupFailed ==
    \/ pc = "failed" /\ error = "network" /\ idx = 0
    \/ \E iss \in DOMAIN fetches : fetches[iss].status = "failed"

\* C11: once a lookup of a run has failed the run has ended in failure, the
\* failure is what sync() was rejected with, and the run has sent no POST and
\* left the issue tracker as it found it, whatever the other fetches do.
C11_LookupFailureFatal ==
    LookupFailed =>
        /\ pc = "failed"
        /\ error = "network"
        /\ posts = <<>>
        /\ workItems = before

\* a page request of one issue failed, the fetch of another issue came to its
\* end with items, and an entry of that other issue is not yet in the tracker
C11_Witness ==
    /\ pc = "failed"
    /\ ~options.dryRun
    /\ \E iss \in DOMAIN fetches, oth \in DOMAIN fetches :
          /\ fetches[iss].status = "failed"
          /\ fetches[oth].status = "done"
          /\ fetches[oth].items # <<>>
          /\ \E k \in 1..Len(timeEntries) :
                /\ timeEntries[k].issueId = oth
                /\ timeEntries[k].id \notin MarkersOf(fetches[oth].items)

\* the work item the issue tracker holds for an accepted POST
ItemOf(p) ==
    Item(p.payload.description, p.payload.date, p.payload.durationMinutes,
         p.payload.workTypeId, p.run, p.id)

\* the work items of the accepted POSTs of the run to issue iss, in order
RECURSIVE AcceptedFor(_, _)
AcceptedFor(ps, iss) ==
    IF ps = <<>> THEN <<>>
    ELSE (IF Head(ps).ok /\ Head(ps).issueId = iss THEN <<ItemOf(Head(ps))>>
          ELSE <<>>) \o AcceptedFor(Tail(ps), iss)

\* entry j of the run has an issue and its id is not among the markers the
\* issue held when the run started: the decision for it is to create
DecidedCreate(j) ==
    /\ Truthy(timeEntries[j].issueId)
    /\ timeEntries[j].id \notin markersBefore[timeEntries[j].issueId]

\* C12: the POSTs of a run go out in the order of the entries, each entry at
\* most once; only the last one can be a rejected one, and then the run has
\* failed at that entry; what the run added to the tracker is exactly the work
\* items of its accepted POSTs, behind what was there before, and at a
\* rejected POST for entry k these are the items of the entries before k that
\* were to be created.
C12_CreateFailurePrefix ==
    /\ \A j, k \in 1..Len(posts) :
          j < k => (posts[j].idx < posts[k].idx /\ posts[j].ok)
    /\ \A iss \in IssueIds :
          workItems[iss] = before[iss] \o AcceptedFor(posts, iss)
    /\ \A k \in 1..Len(posts) :
          ~posts[k].ok =>
              /\ pc = "failed"
              /\ error = "network"
              /\ idx = posts[k].idx
              /\ {posts[j].idx : j \in 1..k - 1} =
                     {j \in 1..idx - 1 : DecidedCreate(j)}

\* the POST for the second entry is rejected after the POST for the first
\* one was accepted: the first work item is in the tracker
C12_Witness ==
    /\ pc = "failed"
    /\ Len(posts) = 2
    /\ posts[1].ok
    /\ ~posts[2].ok
    /\ \E w \in Range(workItems[posts[1].issueId]) :
          w.by = run /\ w.entry = posts[1].id

\* the run has come to the loop over the entries
Deciding == pc \in {"loop", "done", "failed"} /\ idx >= 1

\* C13: before the loop is reached no entry is decided and no POST is sent;
\* when it is reached the work types are those of the tracker, and for every
\* entry with an issue the fetch of that issue has ended with all the work
\* items the issue held, page by page, and the marker set that is consulted
\* is the marker set of all of them.
C13_ReadBeforeWrite ==
    /\ ~Deciding => (pc = "aborted" \/ (log = <<>> /\ posts = <<>>))
    /\ Deciding =>
          /\ workTypes = getAllWorkItemTypes(WorkItemTypes)
          /\ \A k \in 1..Len(timeEntries) :
                Truthy(timeEntries[k].issueId) =>
                    LET iss == timeEntries[k].issueId
                        f == fetches[iss]
                    IN  /\ f.status = "done"
                        /\ f.items = before[iss]
                        /\ f.requests =
                               [j \in 1..(Len(before[iss]) \div limit) + 1 |->
                                    (j - 1) * limit]
                        /\ workItemsByIssueId[iss] = markersBefore[iss]

\* an entry is decided against an issue whose work items took more than one
\* page, with a marker on the first page
C13_Witness ==
    /\ Deciding
    /\ \E k \in 1..Len(log) :
          /\ Truthy(log[k].issueId)
          /\ Len(fetches[log[k].issueId].requests) >= 2
          /\ MarkersOf(SubSeq(before[log[k].issueId], 1, limit)) # {}

\* the marker index as it is built from the tracker the run started from
Snapshot == [iss \in Range(uniqueIssueIds) |-> markersBefore[iss]]

\* the line the loop prints for entry e when it consults the index ix
Decision(e, ix) ==
    IF ~Truthy(e.issueId) THEN "NoIssue"
    ELSE IF e.id \in ix[e.issueId] THEN "Skipping"
    ELSE "Synced"

\* C14: throughout the loop the marker index is the one built from the
\* tracker as it was before the first POST of the run, and the decision
\* printed for every entry is the one that index gives, whatever the run has
\* created in the meantime.
C14_Snapshot ==
    Deciding =>
        /\ workItemsByIssueId = Snapshot
        /\ Len(log) <= Len(timeEntries)
        /\ \A k \in 1..Len(log) :
              log[k] = Line(Decision(timeEntries[k], Snapshot), timeEntries[k])

\* the first entry was created and the second entry, of the same issue, was
\* decided afterwards, when the tracker held a marker the index does not
C14_Witness ==
    /\ Deciding
    /\ Len(log) = 2
    /\ posts # <<>>
    /\ posts[1].idx = 1
    /\ posts[1].ok
    /\ log[2].issueId = posts[1].issueId
    /\ MarkersOf(workItems[posts[1].issueId])
           # workItemsByIssueId[posts[1].issueId]

\* C15: a run that failed has printed its error, and when its process has
\* ended the exit code is not the code of success.
C15_FailureSurfaces ==
    /\ pc = "failed" => error # "none"
    /\ (pc = "failed" /\ exitCode # NoExit) => exitCode # 0

\* C16: createTimeEntry throws for no record, the entry it returns has an
\* absent field where the record has none, and no run fails with a TypeError
\* on a record with absent fields.
C16_NormalizerNeverRaises ==
    /\ error # "TypeError"
    /\ pc \in {"fetching", "loop", "done"} =>
          /\ Len(timeEntries) = Len(entries)
          /\ \A k \in 1..Len(entries) :
                /\ entries[k].tags = <<>> => timeEntries[k].type = Null
                /\ ~entries[k].task.present => timeEntries[k].issueId = Null
                /\ entries[k].timeInterval.start = NoDate
                       => timeEntries[k].startDate = NoDate
                /\ entries[k].timeInterval.duration = NoDuration
                       => timeEntries[k].durationMinutes = NoDuration

\* the issue ids of the entries of the run
IssuesOfRun ==
    {timeEntries[k].issueId : k \in 1..Len(timeEntries)} \ {Null, <<>>}

\* C17: while the fetches of the issues run side by side, in any order of
\* their pages, each call is asked for one issue of the run and has gathered
\* work items of that issue only, in the order the issue holds them; the
\* index that is joined has exactly the issues of the run as its keys, and
\* under each of them the markers of that issue's own work items.
C17_IndexPerIssue ==
    /\ pc \in {"fetching", "loop", "done", "failed"} =>
          \A iss \in DOMAIN fetches :
              /\ iss \in IssuesOfRun
              /\ Len(fetches[iss].items) <= Len(before[iss])
              /\ fetches[iss].items =
                     SubSeq(before[iss], 1, Len(fetches[iss].items))
    /\ pc \in {"fetching", "loop", "done"} => DOMAIN fetches = IssuesOfRun
    /\ Deciding =>
          /\ DOMAIN workItemsByIssueId = IssuesOfRun
          /\ \A iss \in IssuesOfRun :
                workItemsByIssueId[iss] = markersBefore[iss]

\* two fetches under way at once, one of them a page ahead of the other, for
\* issues that hold different markers
C17_Witness ==
    /\ pc = "fetching"
    /\ DOMAIN fetches = {AB1, CD2}
    /\ fetches[AB1].status = "running"
    /\ fetches[CD2].status = "running"
    /\ fetches[AB1].skip = limit
    /\ fetches[CD2].skip = 0
    /\ MarkersOf(workItems[AB1]) # {}
    /\ MarkersOf(workItems[CD2]) # {}
    /\ MarkersOf(workItems[AB1]) # MarkersOf(workItems[CD2])

\* the billable flag of record r is there and is true
FlagSet(r) == "billable" \in DOMAIN r /\ r.billable = TRUE

\* the ids of the records of response d whose flag is false or missing
UnflaggedIds(d) == {d[k].id : k \in {j \in 1..Len(d) : ~FlagSet(d[j])}}

\* the issues that the flagged records of response d name
FlaggedIssues(d) ==
    {extractIssueId(d[k].task.name) :
        k \in {j \in 1..Len(d) : FlagSet(d[j]) /\ d[j].task.present}}

\* C19: a record whose billable flag is false or missing is not among the
\* entries of the run, is not normalized, has no line printed for it and no
\* POST sent for it, and every issue that is fetched is the issue of a record
\* whose flag is true.
C19_OnlyBillable ==
    LET off == UnflaggedIds(data)
        issues == IF fetches = Empty /\ uniqueIssueIds = <<>> THEN {}
                  ELSE FlaggedIssues(data)
    IN  /\ \A k \in 1..Len(entries) : entries[k].id \notin off
        /\ \A k \in 1..Len(timeEntries) : timeEntries[k].id \notin off
        /\ \A k \in 1..Len(uniqueIssueIds) : uniqueIssueIds[k] \in issues
        /\ DOMAIN fetches \subseteq issues
        /\ DOMAIN workItemsByIssueId \subseteq DOMAIN fetches
        /\ \A k \in 1..Len(log) : log[k].id \notin off
        /\ \A k \in 1..Len(posts) : posts[k].id \notin off

\* a run over a response of two records, one with the flag false and one
\* without the flag, both with the key of an issue, has come to its end
C19_Witness ==
    /\ pc = "done"
    /\ Len(data) = 2
    /\ \E j, k \in 1..Len(data) :
          /\ "billable" \in DOMAIN data[j]
          /\ data[j].billable = FALSE
          /\ "billable" \notin DOMAIN data[k]
          /\ extractIssueId(data[j].task.name) \in IssueIds
          /\ extractIssueId(data[k].task.name) \in IssueIds
    /\ timeEntries = <<>>
    /\ fetches = Empty
    /\ posts = <<>>

\* the POSTs of the run for the entry at position j
PostsFor(j) == {k \in 1..Len(posts) : posts[k].idx = j}

\* C20: in a live run over entries with 24-character ids that has not failed,
\* every entry the loop has passed got a POST exactly if it has an issue and
\* its id is not among the markers that issue held when the run started, the
\* POST went to that issue, and no entry got more than one POST.
C20_DecisionComplete ==
    (/\ pc \in {"loop", "done"}
     /\ idx >= 1
     /\ ~options.dryRun
     /\ \A k \in 1..Len(timeEntries) : MarkerShape(timeEntries[k].id))
        => \A j \in 1..idx - 1 :
              /\ Cardinality(PostsFor(j)) = IF DecidedCreate(j) THEN 1 ELSE 0
              /\ \A k \in PostsFor(j) :
                    /\ posts[k].ok
                    /\ posts[k].id = timeEntries[j].id
                    /\ posts[k].issueId = timeEntries[j].issueId

\* a live run has come to its end and has created an entry under its issue
\* although another issue of the run holds the marker of that entry
C20_Witness ==
    /\ pc = "done"
    /\ ~options.dryRun
    /\ \A k \in 1..Len(timeEntries) : MarkerShape(timeEntries[k].id)
    /\ \E k \in 1..Len(posts) :
          \E iss \in DOMAIN workItemsByIssueId :
              /\ iss # posts[k].issueId
              /\ posts[k].id \in workItemsByIssueId[iss]
              /\ posts[k].id \notin workItemsByIssueId[posts[k].issueId]

(***************************************************************************)
(* getIssueWorkItems against an arbitrary issue source                     *)
(***************************************************************************)
\* texts of the items such a source answers with
SourceTexts ==
    << <<"n", "o", "t", "e">>, <<"x", " ">> \o Bracket(IdA), Bracket(IdC) >>

\* its pages: at most limit items; the order of the items within a page is
\* of no concern to the caller, so one order stands for all
SourcePages ==
    UNION { { [k \in 1..n |-> [text |-> SourceTexts[c[k]], date |-> 0]] :
                c \in { d \in [1..n -> 1..Len(SourceTexts)] :
                          \A j \in 1..n - 1 : d[j] <= d[j + 1] } } :
            n \in 0..limit }

InitPage ==
    /\ data = <<>>
    /\ workItems = [iss \in IssueIds |-> <<>>]
    /\ SyncIdle
    /\ fetch = NewFetch
    /\ pages = <<>>
    /\ nreq = 0
    /\ call = NoCall

\* the count of requests; past MaxRequests only its parity is followed
CountRequest(n) == IF n = MaxRequests + 2 THEN MaxRequests + 1 ELSE n + 1

\* the source answers the pending request with `page`.  The first
\* MaxRequests turns of the loop are followed in full; of the later ones
\* only whether the loop goes on.
PageArrives(page) ==
    /\ fetch.status = "running"
    /\ LET f == getIssueWorkItemsStep(fetch, page)
       IN  IF nreq < MaxRequests
           THEN /\ fetch' = f
                /\ pages' = Append(pages, page)
           ELSE /\ fetch' = [fetch EXCEPT !.status = f.status]
                /\ pages' = pages
    /\ nreq' = CountRequest(nreq)
    /\ UNCHANGED <<syncVars, call>>

\* the source rejects the pending request: getIssueWorkItems rejects
PageFails ==
    /\ fetch.status = "running"
    /\ fetch' = [fetch EXCEPT !.status = "failed"]
    /\ nreq' = CountRequest(nreq)
    /\ UNCHANGED <<syncVars, pages, call>>

NextPage ==
    \/ \E page \in SourcePages : PageArrives(page)
    \/ PageFails

SpecPage == InitPage /\ [][NextPage]_vars

\* the event loop delivers the answer to every pending request
SpecPageFair == SpecPage /\ WF_vars(NextPage)

\* C8: while the source answers with full pages the requests go out at the
\* offsets 0, limit, 2*limit, ... in that order; the call ends exactly on the
\* first short page, and the marker set of what it returns is the union of
\* the marker sets of all the pages it was answered with.
C8_Pagination ==
    (nreq <= MaxRequests /\ fetch.status \in {"running", "done"}) =>
        LET k == Len(pages)
        IN  /\ nreq = k
            /\ fetch.requests = [j \in 1..k |-> (j - 1) * limit]
            /\ \A j \in 1..k - 1 : Len(pages[j]) = limit
            /\ fetch.status = "done" <=> (k >= 1 /\ Len(pages[k]) < limit)
            /\ fetch.status = "running" => fetch.skip = k * limit
            /\ fetch.status = "done" =>
                   MarkersOf(fetch.items) =
                       UNION {MarkersOf(pages[j]) : j \in 1..k}

\* two full pages, then a short one, with markers on more than one page
C8_Witness ==
    /\ fetch.status = "done"
    /\ Len(pages) = 3
    /\ MarkersOf(pages[1]) = {IdA}
    /\ MarkersOf(pages[2]) = {IdC}
    /\ MarkersOf(fetch.items) = {IdA, IdC}

\* C9: the work-item fetch of an issue eventually ends, whatever the source
\* answers, also when every page it answers with is full.
C9_FetchEnds == <>(fetch.status \in {"done", "failed"})

(***************************************************************************)
(* The marker: embedding an id and extracting it again                     *)
(***************************************************************************)
IdMixed == [k \in 1..MarkerLen |-> IF k % 2 = 0 THEN "7" ELSE "q"]
MarkerIds == {IdA, IdB, IdC, IdMixed}

DescPieces ==
    { DescPlain, <<" ">>, <<"[">>, <<"]">>, Bracket(IdB), Bracket(IdShort),
      Bracket(Rep("Z", MarkerLen)) }

RECURSIVE Concat(_)
Concat(ss) == IF ss = <<>> THEN <<>> ELSE Head(ss) \o Concat(Tail(ss))

Descriptions ==
    {Null} \cup {Concat(ps) : ps \in SeqsUpTo(DescPieces, MaxPieces)}

InitMarker ==
    /\ data = <<>>
    /\ workItems = [iss \in IssueIds |-> <<>>]
    /\ SyncIdle
    /\ PageIdle
    /\ \E d \in Descriptions, id \in MarkerIds :
          call = [fn |-> "entry", description |-> d, id |-> id,
                  text |-> Null, result |-> Null]

\* sync: description: `${entry.description} [${entry.id}]`
Embed ==
    /\ call.fn = "entry"
    /\ call' = [call EXCEPT !.fn = "embedded",
                            !.text = TemplateDescription(call.description,
                                                         call.id)]
    /\ UNCHANGED <<syncVars, fetch, pages, nreq>>

\* sync: extractInternalId(item.text || "") on the text that was embedded
Extract ==
    /\ call.fn = "embedded"
    /\ call' = [call EXCEPT !.fn = "extracted",
                            !.result = extractInternalId(call.text)]
    /\ UNCHANGED <<syncVars, fetch, pages, nreq>>

NextMarker == Embed \/ Extract

SpecMarker == InitMarker /\ [][NextMarker]_vars

\* C5: for an id of 24 lowercase alphanumeric characters and any description,
\* extractInternalId of `${description} [${id}]` is that id.
C5_RoundTrip ==
    (call.fn = "extracted" /\ MarkerShape(call.id)) => call.result = call.id

(***************************************************************************)
(* The payload of the create call                                          *)
(***************************************************************************)
TagReview == [name |-> <<"R", "e", "v", "i", "e", "w">>]
\* a tag whose name is the name of a member of Object.prototype
TagConstructor ==
    [name |-> <<"c", "o", "n", "s", "t", "r", "u", "c", "t", "o", "r">>]

\* billable records with a task and a start, of every kind of tag
PayloadRecords ==
    { Raw(id, d, TRUE, tags, task, Interval(300, dur)) :
        id \in {IdA, IdC}, d \in {DescPlain, DescMarked},
        tags \in {<<>>, <<TagDev>>, <<TagOther>>, <<TagReview, TagDev>>,
                  <<TagConstructor>>},
        task \in {TaskAB1, TaskCD2}, dur \in {NoDuration, 5400} }

\* the work item types the tracker may be configured with
TypeLists == { Pick(WorkItemTypes, S) : S \in SUBSET (1..Len(WorkItemTypes)) }

\* postIssueWorkItem: the request it sends; type is Null when the payload has
\* no type field
postIssueWorkItem(issueId, d) ==
    [issueId |-> issueId,
     duration |-> d.durationMinutes,
     text |-> d.description,
     date |-> d.date,
     type |-> IF Truthy(d.workTypeId) THEN d.workTypeId ELSE Null]

NoRequest == [issueId |-> Null]

InitPayload ==
    /\ data = <<>>
    /\ workItems = [iss \in IssueIds |-> <<>>]
    /\ SyncIdle
    /\ PageIdle
    /\ \E r \in PayloadRecords, types \in TypeLists :
          call = [fn |-> "entry", entry |-> createTimeEntry(r),
                  workTypes |-> getAllWorkItemTypes(types),
                  data |-> PayloadOf(createTimeEntry(r), Empty),
                  request |-> NoRequest]

\* sync: const data = {...}; if (entry.type && workTypes[entry.type]) ...
BuildData ==
    /\ call.fn = "entry"
    /\ call' = [call EXCEPT !.fn = "data",
                            !.data = PayloadOf(call.entry, call.workTypes)]
    /\ UNCHANGED <<syncVars, fetch, pages, nreq>>

\* sync: await postIssueWorkItem(entry.issueId, data)
SendData ==
    /\ call.fn = "data"
    /\ assertMatch(call.data.description)
    /\ call' = [call EXCEPT !.fn = "sent",
                            !.request = postIssueWorkItem(call.entry.issueId,
                                                          call.data)]
    /\ UNCHANGED <<syncVars, fetch, pages, nreq>>

NextPayload == BuildData \/ SendData

SpecPayload == InitPayload /\ [][NextPayload]_vars

\* C18: the create call goes to the entry's own issue with the text
\* `description [id]`, the entry's start as date and its duration, and with
\* the work type id workTypes[type] exactly when the entry has a type that is
\* a key of the work type map; otherwise it has no work type.
C18_Payload ==
    call.fn = "sent" =>
        LET e == call.entry
            wt == call.workTypes
            rq == call.request
        IN  /\ rq.issueId = e.issueId
            /\ rq.text = e.description \o <<" ", "[">> \o e.id \o <<"]">>
            /\ rq.date = e.startDate
            /\ rq.duration = e.durationMinutes
            /\ rq.type = IF e.type # Null /\ e.type \in DOMAIN wt
                         THEN wt[e.type] ELSE Null

(***************************************************************************)
(* getOptionDateRange                                                      *)
(***************************************************************************)
\* seconds of a day; instants are seconds since the epoch, in UTC
Day == 86400

\* ZonedDateTime.startOfDay() in the time zone UTC
startOfDay(now) == now - (now % Day)

\* options.lastNDays as parseInt leaves it: absent, NaN or an integer
LastNAbsent == [kind |-> "absent", n |-> 0]
LastNNaN == [kind |-> "NaN", n |-> 0]
LastN(n) == [kind |-> "int", n |-> n]

\* JavaScript truthiness of options.lastNDays
TruthyNumber(v) == v.kind = "int" /\ v.n # 0

getOptionDateRange(now, opts) ==
    LET today == startOfDay(now)
    IN  IF opts.today
        THEN [start |-> today, end |-> today + Day]
        ELSE IF TruthyNumber(opts.lastNDays)
        THEN [start |-> today - opts.lastNDays.n * Day, end |-> today]
        ELSE [start |-> today - Day, end |-> today]

Nows == {d * Day + t : d \in 0..MaxDays, t \in {0, 36000, Day - 1}}

DateOptions ==
    [today : BOOLEAN,
     lastNDays : {LastNAbsent, LastNNaN} \cup {LastN(n) : n \in -1..MaxLastN}]

InitDate ==
    /\ data = <<>>
    /\ workItems = [iss \in IssueIds |-> <<>>]
    /\ SyncIdle
    /\ PageIdle
    /\ \E now \in Nows, opts \in DateOptions :
          call = [fn |-> "now", now |-> now, options |-> opts,
                  range |-> [start |-> 0, end |-> 0]]

\* sync: const { start, end } = getOptionDateRange(now, options)
GetOptionDateRange ==
    /\ call.fn = "now"
    /\ call' = [call EXCEPT !.fn = "dateRange",
                            !.range = getOptionDateRange(call.now,
                                                         call.options)]
    /\ UNCHANGED <<syncVars, fetch, pages, nreq>>

NextDate == GetOptionDateRange

SpecDate == InitDate /\ [][NextDate]_vars

\* C10: with today set the range is [start of today, start of today + 1 day);
\* with last-N-days = N, N >= 0, it is [start of today - N days, start of
\* today); with neither it is [start of today - 1 day, start of today).
C10_DateRange ==
    call.fn = "dateRange" =>
        LET today == call.now - (call.now % Day)
            opts == call.options
        IN  /\ opts.today =>
                  call.range = [start |-> today, end |-> today + Day]
            /\ (~opts.today /\ opts.lastNDays.kind = "int"
                    /\ opts.lastNDays.n >= 0) =>
                  call.range = [start |-> today - opts.lastNDays.n * Day,
                                end |-> today]
            /\ (~opts.today /\ opts.lastNDays.kind = "absent") =>
                  call.range = [start |-> today - Day, end |-> today]

====
